---- MODULE Spec2Model ----
(***************************************************************************)
(* Model of bin/app.ts: the ServiceDeployBootstrap stack.  The program     *)
(* reads SERVICE_NAME from the environment, names the stack                *)
(* SERVICE_NAME + STACK_SUFFIX and runs the constructor once, which        *)
(* derives serviceName from the stack name and assembles one role, one     *)
(* user, one group, three outputs and one SSM parameter.  Strings are TLA+ *)
(* strings; policy statements, outputs and parameters are records.         *)
(***************************************************************************)
EXTENDS Integers, Sequences, FiniteSets, TLC

VARIABLES
    SERVICE_NAME,   \* process.env.SERVICE_NAME: {} when undefined, {s} when set
    accountId,      \* cdk.Stack.of(this).account
    region,         \* cdk.Stack.of(this).region
    pc,             \* position in the program
    id,             \* the construct id handed to the constructor
    stackName,      \* cdk.Stack.of(this).stackName
    serviceName,    \* const serviceName
    serviceRole,    \* the Role, Null before `new Role`
    deployUser,     \* the User, Null before `new User`
    deployGroup,    \* the Group, Null before `new Group`
    outputs,        \* the CfnOutputs, in creation order
    parameters,     \* the ssm.StringParameters, in creation order
    error           \* message of the exception that ended construction, "" if none

vars == <<SERVICE_NAME, accountId, region, pc, id, stackName, serviceName,
          serviceRole, deployUser, deployGroup, outputs, parameters, error>>

----------------------------------------------------------------------------
(* Bounds of the input space *)

\* SERVICE_NAME values are concatenations of at most MaxParts of NameParts.
MaxParts == 3

----------------------------------------------------------------------------
(* Program constants *)

STACK_SUFFIX == "-deploy-bootstrap"

version == "1"

Null == [kind |-> "null"]

----------------------------------------------------------------------------
(* String helpers: what the JavaScript string operations compute *)

\* `${x}` of a possibly undefined value
TemplateString(opt) == IF opt = {} THEN "undefined" ELSE CHOOSE s \in opt : TRUE

\* String.prototype.indexOf, 1-based; 0 when pat does not occur
IndexOf(s, pat) ==
    LET hits == {i \in 1..(Len(s) - Len(pat) + 1) : SubSeq(s, i, i + Len(pat) - 1) = pat}
    IN  IF hits = {} THEN 0 ELSE CHOOSE i \in hits : \A j \in hits : i <= j

\* String.prototype.replace with a string pattern: the first occurrence only
Replace(s, pat, rep) ==
    LET i == IndexOf(s, pat)
    IN  IF i = 0 THEN s
        ELSE SubSeq(s, 1, i - 1) \o rep \o SubSeq(s, i + Len(pat), Len(s))

Letters ==
    {"a","b","c","d","e","f","g","h","i","j","k","l","m",
     "n","o","p","q","r","s","t","u","v","w","x","y","z",
     "A","B","C","D","E","F","G","H","I","J","K","L","M",
     "N","O","P","Q","R","S","T","U","V","W","X","Y","Z"}

Digits == {"0","1","2","3","4","5","6","7","8","9"}

\* The Stack base class accepts a name matching /^[A-Za-z][A-Za-z0-9-]*$/
ValidStackName(s) ==
    /\ Len(s) >= 1
    /\ SubSeq(s, 1, 1) \in Letters
    /\ \A i \in 1..Len(s) : SubSeq(s, i, i) \in Letters \cup Digits \cup {"-"}

----------------------------------------------------------------------------
(* Inputs *)

NameParts == {"a", "orders-api", STACK_SUFFIX, "x_y"}

RECURSIVE Concats(_)
Concats(n) ==
    IF n = 0 THEN {""}
    ELSE {s \o p : s \in Concats(n - 1), p \in NameParts} \cup Concats(n - 1)

Names == Concats(MaxParts)

Accounts == {"111111111111", "222222222222"}

Regions == {"us-east-1", "ap-southeast-2"}

----------------------------------------------------------------------------
(* The derived resource patterns (constructor consts) *)

cloudFormationResources ==
    <<"arn:aws:cloudformation:" \o region \o ":" \o accountId \o ":stack/" \o serviceName \o "*">>

s3BucketResources == <<"arn:aws:s3:::" \o serviceName \o "*">>

\* mutant: the object pattern without the bucket-name wildcard
s3ObjectResourcesNoBucketWildcard == <<"arn:aws:s3:::" \o serviceName \o "/*">>

s3ObjectResources == <<"arn:aws:s3:::" \o serviceName \o "*/*">>

cloudWatchResources ==
    <<"arn:aws:logs:" \o region \o ":" \o accountId \o ":log-group:/aws/lambda/" \o serviceName \o "*">>

lambdaResources ==
    <<"arn:aws:lambda:" \o region \o ":" \o accountId \o ":function:" \o serviceName \o "*">>

stepFunctionResources ==
    <<"arn:aws:states:" \o region \o ":" \o accountId \o ":stateMachine:" \o serviceName \o "*">>

iamResources == <<"arn:aws:iam::" \o accountId \o ":role/" \o serviceName \o "*">>

cloudFormationStackResource == ""

\* mutant: the deployment-bucket pattern without the service name
s3DeploymentResourcesAnyService == <<"arn:aws:s3:::*deploymentbucket*">>

s3DeploymentResources == <<"arn:aws:s3:::" \o serviceName \o "*deploymentbucket*">>

----------------------------------------------------------------------------
(* IAM constructs *)

\* new PolicyStatement({effect: Effect.ALLOW, resources, actions})
PolicyStatement(resources, actions) ==
    [effect |-> "Allow", resources |-> resources, actions |-> actions]

\* mutant: a statement whose resources equal an attached statement's is merged into it
addToPolicyMerging(principal, statement) ==
    LET same == {i \in 1..Len(principal.statements) :
                    principal.statements[i].resources = statement.resources}
        i    == CHOOSE k \in same : TRUE
    IN  IF same = {} THEN [principal EXCEPT !.statements = Append(@, statement)]
        ELSE [principal EXCEPT !.statements[i].actions = @ \o statement.actions]

\* principal.addToPolicy(statement): the statement is appended to the principal's policy
addToPolicy(principal, statement) ==
    [principal EXCEPT !.statements = Append(@, statement)]

\* role.roleArn: the token standing for the Arn attribute of this role resource
roleArn(role) == "${" \o role.id \o ".Arn}"

\* user.addToGroup(group)
addToGroup(user, group) ==
    [user EXCEPT !.groups = Append(@, group.id)]

----------------------------------------------------------------------------
(* The policy statements, as the constructor builds them *)

\* S3 object policy
S3ObjectPolicy ==
    PolicyStatement(s3ObjectResources,
        <<"s3:PutObject", "s3:DeleteObject">>)

\* S3 bucket policy
S3BucketPolicy ==
    PolicyStatement(s3BucketResources,
        <<"s3:*">>)

\* CloudWatch policy
CloudWatchPolicy ==
    PolicyStatement(cloudWatchResources,
        <<"logs:CreateLogGroup", "logs:DescribeLogGroup", "logs:DeleteLogGroup",
          "logs:CreateLogStream", "logs:DescribeLogStreams", "logs:DeleteLogStream",
          "logs:FilterLogEvents">>)

\* Lambda policy
LambdaPolicy ==
    PolicyStatement(lambdaResources,
        <<"lambda:GetFunction", "lambda:CreateFunction", "lambda:DeleteFunction",
          "lambda:UpdateFunctionConfiguration", "lambda:UpdateFunctionCode",
          "lambda:ListVersionsByFunction", "lambda:PublishVersion",
          "lambda:CreateAlias", "lambda:DeleteAlias", "lambda:UpdateAlias",
          "lambda:GetFunctionConfiguration", "lambda:AddPermission",
          "lambda:RemovePermission", "lambda:InvokeFunction">>)

\* IAM policy
IamPolicy ==
    PolicyStatement(iamResources,
        <<"iam:PassRole", "iam:CreateRole", "iam:GetRole", "iam:DeleteRole",
          "iam:GetRolePolicy", "iam:DeleteRolePolicy", "iam:PutRolePolicy">>)

\* DynamoDB policy (attached to the state-machine pattern)
DynamoDBPolicy ==
    PolicyStatement(stepFunctionResources,
        <<"dynamodb:CreateTable", "dynamodb:UpdateTable", "dynamodb:DeleteTable">>)

\* StepFunctions policy
StepFunctionsPolicy ==
    PolicyStatement(stepFunctionResources,
        <<"states:CreateStateMachine", "states:DeleteStateMachine",
          "states:DescribeStateMachine", "states:TagResource">>)

\* template validation, unscoped
ValidateTemplatePolicy ==
    PolicyStatement(<<"*">>,
        <<"cloudformation:ValidateTemplate">>)

\* stack lifecycle
CloudFormationPolicy ==
    PolicyStatement(cloudFormationResources,
        <<"cloudformation:CreateStack", "cloudformation:DescribeStacks",
          "cloudformation:DeleteStack", "cloudformation:DescribeStackEvents",
          "cloudformation:UpdateStack", "cloudformation:ListStackResources",
          "cloudformation:DescribeStackResource">>)

\* Serverless uses this to skip functions which have not changed
GetFunctionPolicy ==
    PolicyStatement(lambdaResources,
        <<"lambda:GetFunction">>)

\* mutant: pass-role on every role
PassRolePolicyWildcard == PolicyStatement(<<"*">>, <<"iam:PassRole">>)

\* pass the service role
PassRolePolicy ==
    PolicyStatement(<<roleArn(serviceRole)>>,
        <<"iam:PassRole">>)

\* Deployer user needs to be able to manage the deployment bucket
DeploymentBucketPolicy ==
    PolicyStatement(s3DeploymentResources,
        <<"s3:*">>)

----------------------------------------------------------------------------
(* The program: the module body and the constructor, one action per statement *)

Init ==
    /\ SERVICE_NAME \in {{}} \cup {{n} : n \in Names}
    /\ accountId \in Accounts
    /\ region \in Regions
    /\ pc = "app"
    /\ id = ""
    /\ stackName = ""
    /\ serviceName = ""
    /\ serviceRole = Null
    /\ deployUser = Null
    /\ deployGroup = Null
    /\ outputs = <<>>
    /\ parameters = <<>>
    /\ error = ""

\* new ServiceDeployBootstrap(app, `${SERVICE_NAME}${STACK_SUFFIX}`, {description})
App ==
    /\ pc = "app"
    /\ id' = TemplateString(SERVICE_NAME) \o STACK_SUFFIX
    /\ pc' = "super"
    /\ UNCHANGED <<SERVICE_NAME, accountId, region, stackName, serviceName,
                   serviceRole, deployUser, deployGroup, outputs, parameters, error>>

\* super(scope, id, props): props names no stack, so the stack is named by the id;
\* the base class throws on a name it does not accept
Super ==
    /\ pc = "super"
    /\ stackName' = id
    /\ IF ValidStackName(id)
       THEN pc' = "serviceName" /\ error' = ""
       ELSE pc' = "failed" /\ error' = "Stack name must match the regular expression"
    /\ UNCHANGED <<SERVICE_NAME, accountId, region, id, serviceName,
                   serviceRole, deployUser, deployGroup, outputs, parameters>>

\* const serviceName = cdk.Stack.of(this).stackName.replace(STACK_SUFFIX, '')
DeriveServiceName ==
    /\ pc = "serviceName"
    /\ serviceName' = Replace(stackName, STACK_SUFFIX, "")
    /\ pc' = "serviceRole"
    /\ UNCHANGED <<SERVICE_NAME, accountId, region, id, stackName,
                   serviceRole, deployUser, deployGroup, outputs, parameters, error>>

\* mutant: the role also trusts a second service principal
NewServiceRoleTrustingLambda ==
    /\ pc = "serviceRole"
    /\ serviceRole' = [id         |-> "ServiceRole-v" \o version,
                       assumedBy  |-> <<[service |-> "cloudformation.amazonaws.com"],
                                        [service |-> "lambda.amazonaws.com"]>>,
                       statements |-> <<>>]
    /\ pc' = "S3ObjectPolicy"
    /\ UNCHANGED <<SERVICE_NAME, accountId, region, id, stackName, serviceName,
                   deployUser, deployGroup, outputs, parameters, error>>

\* new Role(this, `ServiceRole-v${version}`, {assumedBy: new ServicePrincipal(...)})
NewServiceRole ==
    /\ pc = "serviceRole"
    /\ serviceRole' = [id         |-> "ServiceRole-v" \o version,
                       assumedBy  |-> <<[service |-> "cloudformation.amazonaws.com"]>>,
                       statements |-> <<>>]
    /\ pc' = "S3ObjectPolicy"
    /\ UNCHANGED <<SERVICE_NAME, accountId, region, id, stackName, serviceName,
                   deployUser, deployGroup, outputs, parameters, error>>

\* serviceRole.addToPolicy(S3ObjectPolicy)
AddS3ObjectPolicy ==
    /\ pc = "S3ObjectPolicy"
    /\ serviceRole' = addToPolicy(serviceRole, S3ObjectPolicy)
    /\ pc' = "S3BucketPolicy"
    /\ UNCHANGED <<SERVICE_NAME, accountId, region, id, stackName, serviceName,
                   deployUser, deployGroup, outputs, parameters, error>>

\* serviceRole.addToPolicy(S3BucketPolicy)
AddS3BucketPolicy ==
    /\ pc = "S3BucketPolicy"
    /\ serviceRole' = addToPolicy(serviceRole, S3BucketPolicy)
    /\ pc' = "CloudWatchPolicy"
    /\ UNCHANGED <<SERVICE_NAME, accountId, region, id, stackName, serviceName,
                   deployUser, deployGroup, outputs, parameters, error>>

\* serviceRole.addToPolicy(CloudWatchPolicy)
AddCloudWatchPolicy ==
    /\ pc = "CloudWatchPolicy"
    /\ serviceRole' = addToPolicy(serviceRole, CloudWatchPolicy)
    /\ pc' = "LambdaPolicy"
    /\ UNCHANGED <<SERVICE_NAME, accountId, region, id, stackName, serviceName,
                   deployUser, deployGroup, outputs, parameters, error>>

\* serviceRole.addToPolicy(LambdaPolicy)
AddLambdaPolicy ==
    /\ pc = "LambdaPolicy"
    /\ serviceRole' = addToPolicy(serviceRole, LambdaPolicy)
    /\ pc' = "IamPolicy"
    /\ UNCHANGED <<SERVICE_NAME, accountId, region, id, stackName, serviceName,
                   deployUser, deployGroup, outputs, parameters, error>>

\* serviceRole.addToPolicy(IamPolicy)
AddIamPolicy ==
    /\ pc = "IamPolicy"
    /\ serviceRole' = addToPolicy(serviceRole, IamPolicy)
    /\ pc' = "DynamoDBPolicy"
    /\ UNCHANGED <<SERVICE_NAME, accountId, region, id, stackName, serviceName,
                   deployUser, deployGroup, outputs, parameters, error>>

\* serviceRole.addToPolicy(DynamoDBPolicy)
AddDynamoDBPolicy ==
    /\ pc = "DynamoDBPolicy"
    /\ serviceRole' = addToPolicy(serviceRole, DynamoDBPolicy)
    /\ pc' = "StepFunctionsPolicy"
    /\ UNCHANGED <<SERVICE_NAME, accountId, region, id, stackName, serviceName,
                   deployUser, deployGroup, outputs, parameters, error>>

\* serviceRole.addToPolicy(StepFunctionsPolicy)
AddStepFunctionsPolicy ==
    /\ pc = "StepFunctionsPolicy"
    /\ serviceRole' = addToPolicy(serviceRole, StepFunctionsPolicy)
    /\ pc' = "deployUser"
    /\ UNCHANGED <<SERVICE_NAME, accountId, region, id, stackName, serviceName,
                   deployUser, deployGroup, outputs, parameters, error>>

\* mutant: the user is created already in a group, before the group exists
NewDeployUserInGroup ==
    /\ pc = "deployUser"
    /\ deployUser' = [id       |-> "DeployUser",
                      userName |-> serviceName \o "-deployer",
                      groups   |-> <<serviceName \o "-deployers">>]
    /\ pc' = "deployGroup"
    /\ UNCHANGED <<SERVICE_NAME, accountId, region, id, stackName, serviceName,
                   serviceRole, deployGroup, outputs, parameters, error>>

\* new User(this, 'DeployUser', {userName: `${serviceName}-deployer`})
NewDeployUser ==
    /\ pc = "deployUser"
    /\ deployUser' = [id       |-> "DeployUser",
                      userName |-> serviceName \o "-deployer",
                      groups   |-> <<>>]
    /\ pc' = "deployGroup"
    /\ UNCHANGED <<SERVICE_NAME, accountId, region, id, stackName, serviceName,
                   serviceRole, deployGroup, outputs, parameters, error>>

\* new Group(this, `${serviceName}-deployers`)
NewDeployGroup ==
    /\ pc = "deployGroup"
    /\ deployGroup' = [id |-> serviceName \o "-deployers", statements |-> <<>>]
    /\ pc' = "ValidateTemplatePolicy"
    /\ UNCHANGED <<SERVICE_NAME, accountId, region, id, stackName, serviceName,
                   serviceRole, deployUser, outputs, parameters, error>>

\* deployGroup.addToPolicy(ValidateTemplatePolicy)
AddValidateTemplatePolicy ==
    /\ pc = "ValidateTemplatePolicy"
    /\ deployGroup' = addToPolicy(deployGroup, ValidateTemplatePolicy)
    /\ pc' = "CloudFormationPolicy"
    /\ UNCHANGED <<SERVICE_NAME, accountId, region, id, stackName, serviceName,
                   serviceRole, deployUser, outputs, parameters, error>>

\* deployGroup.addToPolicy(CloudFormationPolicy)
AddCloudFormationPolicy ==
    /\ pc = "CloudFormationPolicy"
    /\ deployGroup' = addToPolicy(deployGroup, CloudFormationPolicy)
    /\ pc' = "GetFunctionPolicy"
    /\ UNCHANGED <<SERVICE_NAME, accountId, region, id, stackName, serviceName,
                   serviceRole, deployUser, outputs, parameters, error>>

\* deployGroup.addToPolicy(GetFunctionPolicy)
AddGetFunctionPolicy ==
    /\ pc = "GetFunctionPolicy"
    /\ deployGroup' = addToPolicy(deployGroup, GetFunctionPolicy)
    /\ pc' = "PassRolePolicy"
    /\ UNCHANGED <<SERVICE_NAME, accountId, region, id, stackName, serviceName,
                   serviceRole, deployUser, outputs, parameters, error>>

\* deployGroup.addToPolicy(PassRolePolicy)
AddPassRolePolicy ==
    /\ pc = "PassRolePolicy"
    /\ deployGroup' = addToPolicy(deployGroup, PassRolePolicy)
    /\ pc' = "DeploymentBucketPolicy"
    /\ UNCHANGED <<SERVICE_NAME, accountId, region, id, stackName, serviceName,
                   serviceRole, deployUser, outputs, parameters, error>>

\* deployGroup.addToPolicy(DeploymentBucketPolicy)
AddDeploymentBucketPolicy ==
    /\ pc = "DeploymentBucketPolicy"
    /\ deployGroup' = addToPolicy(deployGroup, DeploymentBucketPolicy)
    /\ pc' = "addToGroup"
    /\ UNCHANGED <<SERVICE_NAME, accountId, region, id, stackName, serviceName,
                   serviceRole, deployUser, outputs, parameters, error>>

\* deployUser.addToGroup(deployGroup)
AddToGroup ==
    /\ pc = "addToGroup"
    /\ deployUser' = addToGroup(deployUser, deployGroup)
    /\ pc' = "DeployUserName"
    /\ UNCHANGED <<SERVICE_NAME, accountId, region, id, stackName, serviceName,
                   serviceRole, deployGroup, outputs, parameters, error>>

\* new cdk.CfnOutput(this, 'DeployUserName', ...)
OutputDeployUserName ==
    /\ pc = "DeployUserName"
    /\ outputs' = Append(outputs, [id          |-> "DeployUserName",
                                   description |-> "PublisherUser",
                                   value       |-> deployUser.userName,
                                   exportName  |-> {}])
    /\ pc' = "DeployRoleArn"
    /\ UNCHANGED <<SERVICE_NAME, accountId, region, id, stackName, serviceName,
                   serviceRole, deployUser, deployGroup, parameters, error>>

\* new cdk.CfnOutput(this, 'DeployRoleArn', ...)
OutputDeployRoleArn ==
    /\ pc = "DeployRoleArn"
    /\ outputs' = Append(outputs, [id          |-> "DeployRoleArn",
                                   description |-> "The ARN of the CloudFormation service role",
                                   value       |-> roleArn(serviceRole),
                                   exportName  |-> {"DeployRoleArn"}])
    /\ pc' = "BootstrapVersion"
    /\ UNCHANGED <<SERVICE_NAME, accountId, region, id, stackName, serviceName,
                   serviceRole, deployUser, deployGroup, parameters, error>>

\* new cdk.CfnOutput(this, 'BootstrapVersion', ...)
OutputBootstrapVersion ==
    /\ pc = "BootstrapVersion"
    /\ outputs' = Append(outputs,
          [id          |-> "BootstrapVersion",
           description |-> "The version of the bootstrap resources that are currently provisioned in this stack",
           value       |-> version,
           exportName  |-> {"BootstrapVersion"}])
    /\ pc' = "parameter"
    /\ UNCHANGED <<SERVICE_NAME, accountId, region, id, stackName, serviceName,
                   serviceRole, deployUser, deployGroup, parameters, error>>

\* const parameterName = `/serverless-deploy-bootstrap/${serviceName}/version`
parameterName == "/serverless-deploy-bootstrap/" \o serviceName \o "/version"

\* new ssm.StringParameter(this, 'ServerlessDeployBootstrapVersion', ...)
NewStringParameter ==
    /\ pc = "parameter"
    /\ parameters' = Append(parameters,
          [id            |-> "ServerlessDeployBootstrapVersion",
           parameterName |-> parameterName,
           description   |-> "The version of the serverless-deploy-bootrap resources",
           stringValue   |-> version])
    /\ pc' = "done"
    /\ UNCHANGED <<SERVICE_NAME, accountId, region, id, stackName, serviceName,
                   serviceRole, deployUser, deployGroup, outputs, error>>

\* The constructor body, from super() to its last statement
Constructor ==
    \/ Super
    \/ DeriveServiceName
    \/ NewServiceRole
    \/ AddS3ObjectPolicy
    \/ AddS3BucketPolicy
    \/ AddCloudWatchPolicy
    \/ AddLambdaPolicy
    \/ AddIamPolicy
    \/ AddDynamoDBPolicy
    \/ AddStepFunctionsPolicy
    \/ NewDeployUser
    \/ NewDeployGroup
    \/ AddValidateTemplatePolicy
    \/ AddCloudFormationPolicy
    \/ AddGetFunctionPolicy
    \/ AddPassRolePolicy
    \/ AddDeploymentBucketPolicy
    \/ AddToGroup
    \/ OutputDeployUserName
    \/ OutputDeployRoleArn
    \/ OutputBootstrapVersion
    \/ NewStringParameter

Next == App \/ Constructor

Spec == Init /\ [][Next]_vars

----------------------------------------------------------------------------
(* The constructor on its own: any construct id, as a caller of the class   *)
(* could hand it one.                                                       *)

InitCtor ==
    /\ SERVICE_NAME = {}
    /\ accountId \in Accounts
    /\ region \in Regions
    /\ pc = "super"
    /\ id \in Names
    /\ stackName = ""
    /\ serviceName = ""
    /\ serviceRole = Null
    /\ deployUser = Null
    /\ deployGroup = Null
    /\ outputs = <<>>
    /\ parameters = <<>>
    /\ error = ""

SpecCtor == InitCtor /\ [][Constructor]_vars

----------------------------------------------------------------------------
(* Properties *)

Range(q) == {q[i] : i \in 1..Len(q)}

\* s ends with suf
EndsWith(s, suf) ==
    /\ Len(s) >= Len(suf)
    /\ SubSeq(s, Len(s) - Len(suf) + 1, Len(s)) = suf

\* serviceName has been derived and construction goes on
Derived == pc \notin {"app", "super", "failed", "serviceName"}

\* the constructor is past deployUser.addToGroup(deployGroup)
PastAddToGroup == pc \in {"DeployUserName", "DeployRoleArn", "BootstrapVersion", "parameter", "done"}

\* the constructor is past the seventh serviceRole.addToPolicy
PastRolePolicies ==
    pc \in {"deployUser", "deployGroup", "ValidateTemplatePolicy", "CloudFormationPolicy",
            "GetFunctionPolicy", "PassRolePolicy", "DeploymentBucketPolicy", "addToGroup",
            "DeployUserName", "DeployRoleArn", "BootstrapVersion", "parameter", "done"}

\* nothing of a template has been produced
NoTemplate ==
    /\ serviceRole = Null
    /\ deployUser = Null
    /\ deployGroup = Null
    /\ outputs = <<>>
    /\ parameters = <<>>

RoleStatements == IF serviceRole = Null THEN <<>> ELSE serviceRole.statements

GroupStatements == IF deployGroup = Null THEN <<>> ELSE deployGroup.statements

\* The deploy group's statements that allow iam:PassRole
PassRoleIndexes == {i \in 1..Len(GroupStatements) : "iam:PassRole" \in Range(GroupStatements[i].actions)}

(* C1: the resource list of the deploy group's iam:PassRole statement is   *)
(* exactly the one-element list holding the ARN of the service role built  *)
(* in the same construction, never '*' or anything else; the finished      *)
(* group has exactly one such statement.                                   *)
PassRoleScopedToServiceRole ==
    /\ \A i \in PassRoleIndexes :
          /\ serviceRole # Null
          /\ GroupStatements[i].resources = <<"${" \o serviceRole.id \o ".Arn}">>
          /\ Len(GroupStatements[i].resources) = 1
          /\ "*" \notin Range(GroupStatements[i].resources)
    /\ PastAddToGroup => Cardinality(PassRoleIndexes) = 1

PassRoleAttached ==
    /\ pc = "done"
    /\ PassRoleIndexes # {}
    /\ serviceName = "orders-api"

(* C2: constructed with a stack name that does not end with                *)
(* '-deploy-bootstrap', construction raises an input error and produces no *)
(* template; it never goes on with serviceName empty or equal to the       *)
(* unmodified stack name.                                                  *)
UnsuffixedStackNameRejected ==
    (pc # "super" /\ ~EndsWith(stackName, STACK_SUFFIX)) =>
        /\ pc \in {"serviceName", "failed"}
        /\ pc = "failed" => error # ""
        /\ NoTemplate

(* C3: with SERVICE_NAME undefined or empty the program fails during       *)
(* construction and produces no role, user, group, output or parameter.    *)
MissingServiceNameFails ==
    (SERVICE_NAME = {} \/ SERVICE_NAME = {""}) =>
        /\ NoTemplate
        /\ pc \in {"app", "super", "serviceName", "failed"}

(* C4: the service role's trust relationship names exactly one principal,  *)
(* the service principal cloudformation.amazonaws.com, in every state from *)
(* the role's creation on.                                                 *)
TrustedOnlyByCloudFormation ==
    serviceRole # Null =>
        /\ Len(serviceRole.assumedBy) = 1
        /\ serviceRole.assumedBy[1] = [service |-> "cloudformation.amazonaws.com"]

ServiceRoleFinished ==
    /\ pc = "done"
    /\ serviceRole # Null
    /\ Len(serviceRole.statements) > 0

\* r is pre, then serviceName, then tail, and nothing else
HasServiceNameAt(r, pre, tail) ==
    /\ Len(r) = Len(pre) + Len(serviceName) + Len(tail)
    /\ SubSeq(r, 1, Len(pre)) = pre
    /\ SubSeq(r, Len(pre) + 1, Len(pre) + Len(serviceName)) = serviceName
    /\ SubSeq(r, Len(pre) + Len(serviceName) + 1, Len(r)) = tail

\* The documented patterns: the fixed ARN prefix, and what follows serviceName
DocumentedShapes ==
    {<<"arn:aws:cloudformation:" \o region \o ":" \o accountId \o ":stack/", "*">>,
     <<"arn:aws:s3:::", "*">>,
     <<"arn:aws:s3:::", "*/*">>,
     <<"arn:aws:logs:" \o region \o ":" \o accountId \o ":log-group:/aws/lambda/", "*">>,
     <<"arn:aws:lambda:" \o region \o ":" \o accountId \o ":function:", "*">>,
     <<"arn:aws:states:" \o region \o ":" \o accountId \o ":stateMachine:", "*">>,
     <<"arn:aws:iam::" \o accountId \o ":role/", "*">>,
     <<"arn:aws:s3:::", "*deploymentbucket*">>}

InDocumentedPosition(r) ==
    \E sh \in DocumentedShapes : HasServiceNameAt(r, sh[1], sh[2])

(* C5, as claimed: with serviceName non-empty, every resource of every     *)
(* policy statement attached by the builder holds serviceName in the       *)
(* documented position (after the fixed ARN prefix, followed by '*').      *)
EveryResourceHoldsServiceName ==
    serviceName # "" =>
        /\ \A i \in 1..Len(RoleStatements) :
              \A r \in Range(RoleStatements[i].resources) : InDocumentedPosition(r)
        /\ \A i \in 1..Len(GroupStatements) :
              \A r \in Range(GroupStatements[i].resources) : InDocumentedPosition(r)

\* The deploy group's two statements that are not scoped by a derived pattern
UnscopedByPattern(st) ==
    \/ st.actions = <<"cloudformation:ValidateTemplate">>
    \/ st.actions = <<"iam:PassRole">>

(* C5, amended: with serviceName non-empty, every resource of every policy *)
(* statement attached by the builder, other than those of the deploy       *)
(* group's ValidateTemplate statement (the unscoped '*') and of its        *)
(* PassRole statement (the service role's ARN), holds serviceName in the   *)
(* documented position; those two statements are the only exceptions.      *)
EveryDerivedPatternHoldsServiceName ==
    serviceName # "" =>
        /\ \A i \in 1..Len(RoleStatements) :
              \A r \in Range(RoleStatements[i].resources) : InDocumentedPosition(r)
        /\ \A i \in 1..Len(GroupStatements) :
              \/ UnscopedByPattern(GroupStatements[i])
              \/ \A r \in Range(GroupStatements[i].resources) : InDocumentedPosition(r)
        /\ Cardinality({i \in 1..Len(GroupStatements) : UnscopedByPattern(GroupStatements[i])}) <= 2

AllStatementsAttached ==
    /\ pc = "done"
    /\ serviceName # ""
    /\ Len(RoleStatements) = 7
    /\ Len(GroupStatements) = 5

(* C6: the S3-object pattern, the Lambda pattern and the parameter path in *)
(* the template equal the reference templates for every (serviceName,      *)
(* region, accountId), and the documented strings for ('orders-api',       *)
(* 'us-east-1', '111111111111').                                           *)
DerivedStringsMatchReference ==
    /\ Len(RoleStatements) >= 1 =>
          /\ RoleStatements[1].resources = <<"arn:aws:s3:::" \o serviceName \o "*/*">>
          /\ serviceName = "orders-api" =>
                RoleStatements[1].resources = <<"arn:aws:s3:::orders-api*/*">>
    /\ Len(RoleStatements) >= 4 =>
          /\ RoleStatements[4].resources =
                <<"arn:aws:lambda:" \o region \o ":" \o accountId \o ":function:" \o serviceName \o "*">>
          /\ (serviceName = "orders-api" /\ region = "us-east-1" /\ accountId = "111111111111") =>
                RoleStatements[4].resources =
                    <<"arn:aws:lambda:us-east-1:111111111111:function:orders-api*">>
    /\ Len(GroupStatements) >= 3 =>
          GroupStatements[3].resources =
              <<"arn:aws:lambda:" \o region \o ":" \o accountId \o ":function:" \o serviceName \o "*">>
    /\ pc = "done" =>
          /\ Len(parameters) = 1
          /\ parameters[1].parameterName = "/serverless-deploy-bootstrap/" \o serviceName \o "/version"
          /\ serviceName = "orders-api" =>
                parameters[1].parameterName = "/serverless-deploy-bootstrap/orders-api/version"

OrdersApiBuilt ==
    /\ pc = "done"
    /\ SERVICE_NAME = {"orders-api"}
    /\ serviceName = "orders-api"
    /\ region = "us-east-1"
    /\ accountId = "111111111111"
    /\ Len(parameters) = 1

(* C8: the deploy user is in at most one group at any time; once           *)
(* addToGroup has run it is in exactly one, the deploy group of the same   *)
(* construction, and a membership exists only when that group carries its  *)
(* five statements.                                                        *)
MemberOfExactlyTheDeployGroup ==
    deployUser # Null =>
        /\ Len(deployUser.groups) <= 1
        /\ deployUser.groups # <<>> =>
              /\ deployGroup # Null
              /\ deployUser.groups = <<deployGroup.id>>
              /\ deployGroup.id = serviceName \o "-deployers"
              /\ Len(deployGroup.statements) = 5
        /\ PastAddToGroup => Len(deployUser.groups) = 1

UserAddedToGroup ==
    /\ PastAddToGroup
    /\ deployUser # Null
    /\ deployUser.groups # <<>>

\* The seven statements of the service role, in the order of attachment
ExpectedRoleStatements ==
    <<[effect |-> "Allow",
       resources |-> <<"arn:aws:s3:::" \o serviceName \o "*/*">>,
       actions |-> <<"s3:PutObject", "s3:DeleteObject">>],
      [effect |-> "Allow",
       resources |-> <<"arn:aws:s3:::" \o serviceName \o "*">>,
       actions |-> <<"s3:*">>],
      [effect |-> "Allow",
       resources |-> <<"arn:aws:logs:" \o region \o ":" \o accountId
                         \o ":log-group:/aws/lambda/" \o serviceName \o "*">>,
       actions |-> <<"logs:CreateLogGroup", "logs:DescribeLogGroup", "logs:DeleteLogGroup",
                     "logs:CreateLogStream", "logs:DescribeLogStreams",
                     "logs:DeleteLogStream", "logs:FilterLogEvents">>],
      [effect |-> "Allow",
       resources |-> <<"arn:aws:lambda:" \o region \o ":" \o accountId
                         \o ":function:" \o serviceName \o "*">>,
       actions |-> <<"lambda:GetFunction", "lambda:CreateFunction", "lambda:DeleteFunction",
                     "lambda:UpdateFunctionConfiguration", "lambda:UpdateFunctionCode",
                     "lambda:ListVersionsByFunction", "lambda:PublishVersion",
                     "lambda:CreateAlias", "lambda:DeleteAlias", "lambda:UpdateAlias",
                     "lambda:GetFunctionConfiguration", "lambda:AddPermission",
                     "lambda:RemovePermission", "lambda:InvokeFunction">>],
      [effect |-> "Allow",
       resources |-> <<"arn:aws:iam::" \o accountId \o ":role/" \o serviceName \o "*">>,
       actions |-> <<"iam:PassRole", "iam:CreateRole", "iam:GetRole", "iam:DeleteRole",
                     "iam:GetRolePolicy", "iam:DeleteRolePolicy", "iam:PutRolePolicy">>],
      [effect |-> "Allow",
       resources |-> <<"arn:aws:states:" \o region \o ":" \o accountId
                         \o ":stateMachine:" \o serviceName \o "*">>,
       actions |-> <<"dynamodb:CreateTable", "dynamodb:UpdateTable", "dynamodb:DeleteTable">>],
      [effect |-> "Allow",
       resources |-> <<"arn:aws:states:" \o region \o ":" \o accountId
                         \o ":stateMachine:" \o serviceName \o "*">>,
       actions |-> <<"states:CreateStateMachine", "states:DeleteStateMachine",
                     "states:DescribeStateMachine", "states:TagResource">>]>>

(* C9: the service role's statements are, at every moment, the first k of  *)
(* the seven expected ALLOW statements in their fixed order (never merged, *)
(* deduplicated or reordered), each with a one-element resource list, and  *)
(* all seven once the constructor is past the role.                        *)
SevenRoleStatementsInOrder ==
    /\ Len(RoleStatements) <= Len(ExpectedRoleStatements)
    /\ RoleStatements = SubSeq(ExpectedRoleStatements, 1, Len(RoleStatements))
    /\ \A i \in 1..Len(RoleStatements) :
          /\ RoleStatements[i].effect = "Allow"
          /\ Len(RoleStatements[i].resources) = 1
    /\ PastRolePolicies => Len(RoleStatements) = 7

SevenStatementsAttached ==
    /\ PastRolePolicies
    /\ Len(RoleStatements) = 7
    /\ RoleStatements[6].resources = RoleStatements[7].resources

(* C10: for every non-empty SERVICE_NAME, the serviceName the constructor  *)
(* derives from SERVICE_NAME + '-deploy-bootstrap' is SERVICE_NAME itself. *)
ServiceNameRoundTrip ==
    (Derived /\ SERVICE_NAME # {} /\ SERVICE_NAME # {""}) =>
        SERVICE_NAME = {serviceName}

====
